---- MODULE Spec2Model ----
(***************************************************************************)
(* A model of lsst.rapid.analysis: the ImageExaminer analysis run          *)
(* (imageExaminer.py), the pixel helpers it uses (utils.py) and the        *)
(* ImageSorter annotation loop (imageSorter.py).                           *)
(*                                                                         *)
(* Numbers.  Python floats are modelled as exact rationals [n, d] in       *)
(* lowest terms with d > 0; the non-finite floats nan, +inf and -inf have   *)
(* d = 0.  A radial distance sqrt(q)/2 is                                  *)
(* represented by the integer q (four times its square), which orders the  *)
(* distances exactly as the floats do.                                     *)
(***************************************************************************)
EXTENDS Integers, Sequences, FiniteSets, TLC

(***************************************************************************)
(* Bounds of the model                                                     *)
(***************************************************************************)
ExpWidth == 5
ExpHeight == 5
MaxHalfSize == 2
RecursionLimit == 3
MaxFiles == 2

VARIABLES
    exp,              \* self.exp: [image, sat], read-only
    centroid,         \* self.centroid: <<x, y>> of rationals
    argCentroid,      \* the centroid argument this run was constructed with
    boxHalfSize,      \* self.boxHalfSize
    argHalfSize,      \* the boxHalfSize argument of the constructor
    doTweakCentroid,  \* self.doTweakCentroid
    data,             \* self.data: the cutout array [rows, cols, a]
    starBbox,         \* self.starBbox
    nSatPixInBox,     \* self.nSatPixInBox
    peak,             \* the peak tweakCentroid chose: <<row, col>> of rationals
    imStats,          \* self.imStats: the report, a function of field names
    radii,            \* self.radii (as 4*r^2)
    cumFluxes,        \* self.cumFluxes
    cumFluxesNorm,    \* self.cumFluxesNorm
    pc,               \* position inside ImageExaminer.__init__
    err,              \* the exception that ended the run, "" when none
    round             \* 1 in the first run, 2 in a second one on its result

VARIABLES
    fileList,         \* ImageSorter.fileList: a sequence of file names
    outputFile,       \* what the file outputFilename holds on disk
    info,             \* sortImages' dictionary info: data id -> annotation
    mode,             \* sortImages' mode
    imNum,            \* the index of the loop over fileList, from 0
    spc,              \* position inside ImageSorter.sortImages
    serr,             \* the exception that ended sortImages, "" when none
    crashed,          \* the process was killed where it stood
    startFile,        \* what the output file held when sortImages was called
    shown,            \* the data ids the operator was asked about (line 198)
    annotations       \* what a call of loadAnnotations gave, once sortImages is over

soVars == <<fileList, outputFile, info, mode, imNum, spc, serr, crashed, startFile,
            shown, annotations>>

exVars == <<exp, centroid, argCentroid, boxHalfSize, argHalfSize, doTweakCentroid,
            data, starBbox, nSatPixInBox, peak, imStats, radii, cumFluxes,
            cumFluxesNorm, pc, err, round>>

(***************************************************************************)
(* Arithmetic helpers                                                      *)
(***************************************************************************)
Abs(n) == IF n < 0 THEN -n ELSE n

SetMin(S) == CHOOSE m \in S : \A k \in S : m <= k

SetMax(S) == CHOOSE m \in S : \A k \in S : m >= k

RECURSIVE GCD(_, _)
GCD(a, b) == IF b = 0 THEN a ELSE GCD(b, a % b)

\* the non-finite floats have d = 0: nan, +inf and -inf
NaN == [n |-> 0, d |-> 0]

PosInf == [n |-> 1, d |-> 0]

NegInf == [n |-> -1, d |-> 0]

IsFinite(q) == q.d # 0

Sign(n) == IF n > 0 THEN 1 ELSE IF n < 0 THEN -1 ELSE 0

\* n / d as numpy divides: a zero divisor gives nan or inf, never an exception
RatDiv(n, d) ==
    IF d = 0 THEN [n |-> Sign(n), d |-> 0]
    ELSE LET s == IF d < 0 THEN -1 ELSE 1
             g == GCD(Abs(n), Abs(d))
         IN [n |-> (s * n) \div g, d |-> (s * d) \div g]

RatInt(k) == [n |-> k, d |-> 1]

RatNeg(q) == [n |-> -q.n, d |-> q.d]

RatAdd(p, q) ==
    IF IsFinite(p) /\ IsFinite(q) THEN RatDiv(p.n * q.d + q.n * p.d, p.d * q.d)
    ELSE IF IsFinite(p) THEN q
    ELSE IF IsFinite(q) THEN p
    ELSE IF p = q THEN p ELSE NaN

RatSub(p, q) == RatAdd(p, RatNeg(q))

RatAbs(q) == [n |-> Abs(q.n), d |-> q.d]

\* p < q as floats compare: every comparison with nan is false
RatLess(p, q) ==
    IF p = NaN \/ q = NaN THEN FALSE
    ELSE IF IsFinite(p) /\ IsFinite(q) THEN p.n * q.d < q.n * p.d
    ELSE IF IsFinite(p) THEN q = PosInf
    ELSE IF IsFinite(q) THEN p = NegInf
    ELSE p = NegInf /\ q = PosInf

\* float -> int conversion of a finite value: truncation towards zero
TruncInt(q) == IF q.n >= 0 THEN q.n \div q.d ELSE -((-q.n) \div q.d)

\* Python's round(): to the nearest integer, halves to the even one
RoundHalfEven(q) ==
    LET f == (2 * q.n) \div (2 * q.d)          \* floor
        twice == 2 * q.n - 2 * f * q.d         \* 2*(q - floor) * d
    IN IF twice < q.d THEN f
       ELSE IF twice > q.d THEN f + 1
       ELSE IF f % 2 = 0 THEN f ELSE f + 1

RECURSIVE SumSeq(_)
SumSeq(s) == IF s = <<>> THEN 0 ELSE Head(s) + SumSeq(Tail(s))

(***************************************************************************)
(* lsst.geom boxes: [x0, y0, nx, ny], the empty box is all zero            *)
(***************************************************************************)
EmptyBox == [x0 |-> 0, y0 |-> 0, nx |-> 0, ny |-> 0]

IsEmptyBox(b) == b.nx = 0 \/ b.ny = 0

\* geom.Box2I(centroidPoint, geom.Extent2I(1, 1))
UnitBox(pt) == [x0 |-> pt[1], y0 |-> pt[2], nx |-> 1, ny |-> 1]

DilatedBy(b, r) ==
    IF IsEmptyBox(b) THEN EmptyBox
    ELSE IF b.nx + 2 * r <= 0 \/ b.ny + 2 * r <= 0 THEN EmptyBox
    ELSE [x0 |-> b.x0 - r, y0 |-> b.y0 - r, nx |-> b.nx + 2 * r, ny |-> b.ny + 2 * r]

ClippedTo(b, c) ==
    IF IsEmptyBox(b) \/ IsEmptyBox(c) THEN EmptyBox
    ELSE LET lo1 == IF b.x0 > c.x0 THEN b.x0 ELSE c.x0
             lo2 == IF b.y0 > c.y0 THEN b.y0 ELSE c.y0
             hi1 == IF b.x0 + b.nx < c.x0 + c.nx THEN b.x0 + b.nx ELSE c.x0 + c.nx
             hi2 == IF b.y0 + b.ny < c.y0 + c.ny THEN b.y0 + b.ny ELSE c.y0 + c.ny
         IN IF hi1 <= lo1 \/ hi2 <= lo2 THEN EmptyBox
            ELSE [x0 |-> lo1, y0 |-> lo2, nx |-> hi1 - lo1, ny |-> hi2 - lo2]

BoxContains(b, pt) ==
    /\ b.x0 <= pt[1] /\ pt[1] < b.x0 + b.nx
    /\ b.y0 <= pt[2] /\ pt[2] < b.y0 + b.ny

BoxInside(b, c) ==
    IsEmptyBox(b) \/ ( /\ c.x0 <= b.x0 /\ b.x0 + b.nx <= c.x0 + c.nx
                       /\ c.y0 <= b.y0 /\ b.y0 + b.ny <= c.y0 + c.ny )

\* self.exp.getBBox(): the exposure's bounds, with its origin at (0, 0)
ChipBBox == [x0 |-> 0, y0 |-> 0, nx |-> ExpWidth, ny |-> ExpHeight]

(***************************************************************************)
(* Pixel arrays: [rows, cols, a] with a[i][j], i the row (y), j the column *)
(* (x), both counted from 0 as numpy does                                  *)
(***************************************************************************)
EmptyArray == [rows |-> 0, cols |-> 0, a |-> <<>>]

Indices(arr) == (0 .. arr.rows - 1) \X (0 .. arr.cols - 1)

\* the pixels in numpy's iteration order (row-major)
Flat(arr) == [k \in 1 .. arr.rows * arr.cols |->
                 arr.a[(k - 1) \div arr.cols][(k - 1) % arr.cols]]

\* image[bbox].array
SubArray(img, bbox) ==
    IF IsEmptyBox(bbox) THEN EmptyArray
    ELSE [rows |-> bbox.ny, cols |-> bbox.nx,
          a |-> [i \in 0 .. bbox.ny - 1 |->
                    [j \in 0 .. bbox.nx - 1 |-> img.a[bbox.y0 + i][bbox.x0 + j]]]]

ArrayMax(arr) == SetMax({arr.a[ij[1]][ij[2]] : ij \in Indices(arr)})

RowMajorLess(p, q) == p[1] < q[1] \/ (p[1] = q[1] /\ p[2] < q[2])

RECURSIVE RowMajorSeq(_)
RowMajorSeq(S) ==
    IF S = {} THEN <<>>
    ELSE LET first == CHOOSE p \in S : \A q \in S \ {p} : RowMajorLess(p, q)
         IN <<first>> \o RowMajorSeq(S \ {first})

\* utils.countPixels(maskedImage[bbox], maskPlane)
countPixels(mask, bbox, maskPlane) ==
    Cardinality({p \in mask[maskPlane] : BoxContains(bbox, p)})

\* utils.argMax2d(array), for a non-empty array: (maxLocation, unique, otherLocations)
argMax2d(arr) ==
    LET m == ArrayMax(arr)
        maxCoords == RowMajorSeq({ij \in Indices(arr) : arr.a[ij[1]][ij[2]] = m})
    IN [maxLocation |-> maxCoords[1],
        unique |-> Len(maxCoords) = 1,
        otherLocations |-> Tail(maxCoords)]

\* scipy.ndimage.center_of_mass(data): (row, col), each sum(index*value)/sum(value)
center_of_mass(arr) ==
    LET flat == Flat(arr)
        n == arr.rows * arr.cols
        total == SumSeq(flat)
        rowSum == SumSeq([k \in 1 .. n |-> ((k - 1) \div arr.cols) * flat[k]])
        colSum == SumSeq([k \in 1 .. n |-> ((k - 1) % arr.cols) * flat[k]])
    IN <<RatDiv(rowSum, total), RatDiv(colSum, total)>>

(***************************************************************************)
(* Cutout extraction: _calcMaxBoxHalfSize, _calcBbox, getStarBoxData       *)
(***************************************************************************)
\* np.array(centroid, dtype=int) and geom.Point2I(centroid) of a finite centroid
IntPoint(c) == <<TruncInt(c[1]), TruncInt(c[2])>>

CentroidFinite(c) == IsFinite(c[1]) /\ IsFinite(c[2])

\* _calcMaxBoxHalfSize as it would be without the -1 that allows for the open
\* upper ends of the chip's box
CalcMaxBoxHalfSizeClosedEnds(pt, chipBbox) ==
    LET ll == chipBbox.x0
        r == chipBbox.x0 + chipBbox.nx
        d == chipBbox.y0
        u == chipBbox.y0 + chipBbox.ny
        x == pt[1]
        y == pt[2]
    IN SetMin({x - ll, r - x, u - y, y - d})

\* ImageExaminer._calcMaxBoxHalfSize: the value of maxSize, before its assert
_calcMaxBoxHalfSize(pt, chipBbox) ==
    LET ll == chipBbox.x0
        r == chipBbox.x0 + chipBbox.nx
        d == chipBbox.y0
        u == chipBbox.y0 + chipBbox.ny
        x == pt[1]
        y == pt[2]
    IN SetMin({x - ll, r - x - 1, u - y - 1, y - d})

\* the test that sends _calcBbox into its shrink branch
NeedsShrink(bbox) == bbox.nx # bbox.ny

\* ImageExaminer._calcBbox for the integer point pt of the centroid and
\* self.boxHalfSize = half: [err, bbox, half, shrinks], half being the
\* boxHalfSize the call leaves behind.  intRaises: np.array(centroid, dtype=int)
\* raises (a non-finite centroid, where numpy refuses the conversion).
RECURSIVE _calcBbox(_, _, _, _)
_calcBbox(pt, half, depth, intRaises) ==
    LET bbox == ClippedTo(DilatedBy(UnitBox(pt), half), ChipBBox)
    IN IF NeedsShrink(bbox)
       THEN LET maxsize == _calcMaxBoxHalfSize(pt, ChipBBox)
            IN IF intRaises
               THEN [err |-> "ValueError", bbox |-> EmptyBox, half |-> half,
                     shrinks |-> depth]
               ELSE IF maxsize < 0
               THEN [err |-> "AssertionError", bbox |-> EmptyBox, half |-> half,
                     shrinks |-> depth]
               ELSE IF depth >= RecursionLimit
               THEN [err |-> "RecursionError", bbox |-> EmptyBox, half |-> maxsize,
                     shrinks |-> depth]
               ELSE _calcBbox(pt, maxsize, depth + 1, intRaises)
       ELSE [err |-> "", bbox |-> bbox, half |-> half, shrinks |-> depth]

\* the integer points geom.Point2I(centroid) can be: truncation for a finite
\* centroid; the conversion of nan or inf to an integer is undefined, so any point
PointsOf(c) ==
    IF CentroidFinite(c) THEN {IntPoint(c)}
    ELSE (-1 .. ExpWidth) \X (-1 .. ExpHeight)

\* whether np.array(centroid, dtype=int) can raise / can return
IntRaisesOf(c) == IF CentroidFinite(c) THEN {FALSE} ELSE BOOLEAN

(***************************************************************************)
(* Centroid refinement: tweakCentroid                                      *)
(***************************************************************************)
\* ChoosePeak as it would be if it trusted the first maximum of an unsaturated
\* cutout without asking whether it is the only one
ChoosePeakIgnoringTies(arr, nSatPix) ==
    LET am == argMax2d(arr)
    IN IF nSatPix # 0
       THEN center_of_mass(arr)
       ELSE <<RatInt(am.maxLocation[1]), RatInt(am.maxLocation[2])>>

\* lines 125-132: the peak tweakCentroid goes on with, <<row, col>>
ChoosePeak(arr, nSatPix) ==
    LET am == argMax2d(arr)
    IN IF ~am.unique \/ nSatPix # 0
       THEN center_of_mass(arr)
       ELSE <<RatInt(am.maxLocation[1]), RatInt(am.maxLocation[2])>>

\* TweakedCentroid as it would be with the row offset added to x and the
\* column offset to y
TweakedCentroidUnswapped(c, pk, half) ==
    LET offset == <<RatSub(pk[1], RatInt(half)), RatSub(pk[2], RatInt(half))>>
        x == RatAdd(c[1], offset[1])
        y == RatAdd(c[2], offset[2])
    IN <<x, y>>

\* lines 134-138: the centroid moved by the peak's offset from (half, half)
TweakedCentroid(c, pk, half) ==
    LET offset == <<RatSub(pk[1], RatInt(half)), RatSub(pk[2], RatInt(half))>>
        x == RatAdd(c[1], offset[2])
        y == RatAdd(c[2], offset[1])
    IN <<x, y>>

(***************************************************************************)
(* utils.getImageStats and the fields __init__ adds                        *)
(***************************************************************************)
getImageStats(e) ==
    LET am == argMax2d(e.image)
    IN [maxValue |-> ArrayMax(e.image),
        maxPixelLocation |-> am.maxLocation,
        multipleMaxPixels |-> am.unique,
        nBadPixels |-> countPixels(e.mask, ChipBBox, "BAD"),
        nSatPixels |-> countPixels(e.mask, ChipBBox, "SAT")]

\* the report as a function of its field names
StatsOf(e, c, nSat) ==
    LET r == getImageStats(e)
    IN [f \in {"maxValue", "maxPixelLocation", "multipleMaxPixels", "nBadPixels",
               "nSatPixels", "centroid", "intCentroid", "intCentroidRounded",
               "nStatPixInBox"} |->
          CASE f = "maxValue" -> r.maxValue
            [] f = "maxPixelLocation" -> r.maxPixelLocation
            [] f = "multipleMaxPixels" -> r.multipleMaxPixels
            [] f = "nBadPixels" -> r.nBadPixels
            [] f = "nSatPixels" -> r.nSatPixels
            [] f = "centroid" -> c
            [] f = "intCentroid" -> IntPoint(c)
            [] f = "intCentroidRounded" -> <<RoundHalfEven(c[1]), RoundHalfEven(c[2])>>
            [] f = "nStatPixInBox" -> nSat]

(***************************************************************************)
(* Radial profile and encircled energy: radialAverageAndFit                *)
(***************************************************************************)
\* 4 * (distance of pixel (i, j) from center = (xlen/2, ylen/2)) ^ 2
Dist4(arr, i, j) == (2 * i - arr.rows) * (2 * i - arr.rows)
                    + (2 * j - arr.cols) * (2 * j - arr.cols)

\* Clipped as it would be with the bound xlen/2, not rounded down
ClippedAtHalfWidth(arr, i, j) == Dist4(arr, i, j) > arr.rows * arr.rows

\* dist > xlen//2: the pixel is left out
Clipped(arr, i, j) == Dist4(arr, i, j) > 4 * (arr.rows \div 2) * (arr.rows \div 2)

\* lines 205-212: the (distance, value) pairs in loop order
RadialSamples(arr) ==
    LET n == arr.rows * arr.cols
        row(k) == (k - 1) \div arr.cols
        col(k) == (k - 1) % arr.cols
        Keep(k) == ~Clipped(arr, row(k), col(k))
        kept == SelectSeq([k \in 1 .. n |-> k], Keep)
    IN [m \in 1 .. Len(kept) |->
          <<Dist4(arr, row(kept[m]), col(kept[m])), arr.a[row(kept[m])][col(kept[m])]>>]

\* the order sorted() puts (distance, value) tuples in
PairLeq(p, q) == p[1] < q[1] \/ (p[1] = q[1] /\ p[2] <= q[2])

RECURSIVE InsertSorted(_, _)
InsertSorted(s, p) ==
    IF s = <<>> THEN <<p>>
    ELSE IF PairLeq(p, Head(s)) THEN <<p>> \o s
    ELSE <<Head(s)>> \o InsertSorted(Tail(s), p)

RECURSIVE SortedPairs(_)
SortedPairs(s) ==
    IF s = <<>> THEN <<>>
    ELSE InsertSorted(SortedPairs(Tail(s)), Head(s))

RECURSIVE CumFrom(_, _)
CumFrom(vals, acc) ==
    IF vals = <<>> THEN <<>>
    ELSE <<acc + Head(vals)>> \o CumFrom(Tail(vals), acc + Head(vals))

\* np.cumsum
CumSum(vals) == CumFrom(vals, 0)

\* d[:, c] of the array of sorted pairs
RECURSIVE Column(_, _)
Column(s, c) == IF s = <<>> THEN <<>> ELSE <<Head(s)[c]>> \o Column(Tail(s), c)

SeqMax(s) == SetMax({s[k] : k \in 1 .. Len(s)})

\* Normalized as it would be if it divided by the sum of the cumulative fluxes
NormalizedBySum(cum) ==
    LET top == SumSeq(cum)
    IN [k \in 1 .. Len(cum) |-> RatDiv(cum[k], top)]

\* line 244: self.cumFluxes / np.max(self.cumFluxes)
Normalized(cum) ==
    LET top == SeqMax(cum)
    IN [k \in 1 .. Len(cum) |-> RatDiv(cum[k], top)]

\* ArgMin as it would be if it gave the last position of the least value
ArgMinLast(s) ==
    LET idx == 1 .. Len(s)
        nans == {k \in idx : s[k] = NaN}
        least == {k \in idx : \A m \in idx : ~RatLess(s[m], s[k])}
    IN IF nans # {} THEN SetMin(nans) ELSE SetMax(least)

\* np.argmin of a non-empty float sequence: the first nan if there is one,
\* otherwise the first position of the least value (1-based here)
ArgMin(s) ==
    LET idx == 1 .. Len(s)
        nans == {k \in idx : s[k] = NaN}
        least == {k \in idx : \A m \in idx : ~RatLess(s[m], s[k])}
    IN IF nans # {} THEN SetMin(nans) ELSE SetMin(least)

\* ImageExaminer.getEncircledEnergyRadius(percentage) on given tables
EncircledEnergyRadius(rs, norm, percentage) ==
    rs[ArgMin([k \in 1 .. Len(norm) |->
                  RatAbs(RatSub(RatDiv(percentage, 100), norm[k]))])]

\* ImageExaminer.getEncircledEnergyRadius(percentage)
getEncircledEnergyRadius(percentage) ==
    EncircledEnergyRadius(radii, cumFluxesNorm, percentage)

\* lines 220-233: the fit fields after curve_fit returned (fitOk) or raised
\* RuntimeError; a fitted number is the token "number"
FitFields(fitOk) ==
    IF fitOk
    THEN [f \in {"fitAmp", "fitGausMean", "fitFwhm"} |-> "number"]
    ELSE [f \in {"fitAmp", "fitMean", "fitFwhm"} |-> "nan"]

(***************************************************************************)
(* The inputs of a run                                                     *)
(***************************************************************************)
\* where the star can sit
StarSpots == {<<2, 2>>, <<0, 0>>, <<3, 1>>, <<1, 4>>}

\* the scenes around the star: a flat background bg, a second feature of
\* value v2 at p2, and whether the star's pixel carries the SAT bit
Scenes ==
    { [bg |-> 1, p2 |-> <<2, 3>>, v2 |-> 1, sat |-> FALSE],    \* a star on sky
      [bg |-> 0, p2 |-> <<2, 3>>, v2 |-> 0, sat |-> FALSE],    \* a star on nothing
      [bg |-> 1, p2 |-> <<2, 3>>, v2 |-> 3, sat |-> FALSE],    \* two equal maxima
      [bg |-> 1, p2 |-> <<2, 3>>, v2 |-> 1, sat |-> TRUE],     \* a saturated star
      [bg |-> 1, p2 |-> <<1, 1>>, v2 |-> -1, sat |-> FALSE],   \* a negative pixel
      [bg |-> 0, p2 |-> <<2, 1>>, v2 |-> -1, sat |-> FALSE] }  \* a negative pixel

\* an exposure: scene sc with a star of value 3 at p1
MakeExposure(p1, sc) ==
    [image |-> [rows |-> ExpHeight, cols |-> ExpWidth,
                a |-> [y \in 0 .. ExpHeight - 1 |->
                         [x \in 0 .. ExpWidth - 1 |->
                            IF <<x, y>> = p1 THEN 3
                            ELSE IF <<x, y>> = sc.p2 THEN sc.v2
                            ELSE sc.bg]]],
     mask |-> [SAT |-> IF sc.sat THEN {p1} ELSE {}, BAD |-> {}]]

Exposures == {MakeExposure(p1, sc) : p1 \in StarSpots, sc \in Scenes}

\* centroids on and one pixel beyond the exposure, whole or half-pixel
Centroids ==
    {<<RatDiv(2 * kx + f, 2), RatDiv(2 * ky + f, 2)>> :
        kx \in -1 .. ExpWidth, ky \in -1 .. ExpHeight, f \in {0, 1}}

(***************************************************************************)
(* ImageExaminer.__init__, one action per stage                            *)
(***************************************************************************)
Unset ==
    /\ data = EmptyArray
    /\ starBbox = EmptyBox
    /\ nSatPixInBox = 0
    /\ peak = <<>>
    /\ imStats = <<>>
    /\ radii = <<>>
    /\ cumFluxes = <<>>
    /\ cumFluxesNorm = <<>>
    /\ err = ""

\* lines 84-101, with the centroid given or found
ExInit ==
    /\ exp \in Exposures
    /\ centroid \in Centroids
    /\ argCentroid = centroid
    /\ boxHalfSize \in 0 .. MaxHalfSize
    /\ argHalfSize = boxHalfSize
    /\ doTweakCentroid \in BOOLEAN
    /\ Unset
    /\ pc = "getStarBoxData"
    /\ round = 1

Raise(e) ==
    /\ pc' = "error"
    /\ err' = e

\* self.data = self.getStarBoxData()
getStarBoxData(nextPc) ==
    \E pt \in PointsOf(centroid), intRaises \in IntRaisesOf(centroid) :
        LET r == _calcBbox(pt, boxHalfSize, 0, intRaises)
        IN /\ boxHalfSize' = r.half
           /\ IF r.err # ""
              THEN /\ Raise(r.err)
                   /\ UNCHANGED <<starBbox, nSatPixInBox, data>>
              ELSE /\ starBbox' = r.bbox
                   /\ nSatPixInBox' = countPixels(exp.mask, r.bbox, "SAT")
                   /\ data' = SubArray(exp.image, r.bbox)
                   /\ pc' = nextPc
                   /\ err' = err
           /\ UNCHANGED <<exp, centroid, argCentroid, argHalfSize, doTweakCentroid,
                          peak, imStats, radii, cumFluxes, cumFluxesNorm, round>>
           /\ UNCHANGED soVars

\* line 103
FirstExtract ==
    /\ pc = "getStarBoxData"
    /\ getStarBoxData(IF doTweakCentroid THEN "tweakCentroid" ELSE "getImageStats")

\* line 105; np.max of an empty cutout raises ValueError
tweakCentroid ==
    /\ pc = "tweakCentroid"
    /\ IF data.rows = 0 \/ data.cols = 0
       THEN /\ Raise("ValueError")
            /\ UNCHANGED <<peak, centroid>>
       ELSE /\ peak' = ChoosePeak(data, nSatPixInBox)
            /\ centroid' = TweakedCentroid(centroid, peak', boxHalfSize)
            /\ pc' = "getStarBoxDataAgain"
            /\ err' = err
    /\ UNCHANGED <<exp, argCentroid, boxHalfSize, argHalfSize, doTweakCentroid, data,
                   starBbox, nSatPixInBox, imStats, radii, cumFluxes, cumFluxesNorm,
                   round>>
    /\ UNCHANGED soVars

\* SecondExtract as it would be if line 106 kept the cutout of line 103
SecondExtractKeepsCutout ==
    /\ pc = "getStarBoxDataAgain"
    /\ pc' = "getImageStats"
    /\ UNCHANGED <<exp, centroid, argCentroid, boxHalfSize, argHalfSize,
                   doTweakCentroid, data, starBbox, nSatPixInBox, peak, imStats,
                   radii, cumFluxes, cumFluxesNorm, err, round>>
    /\ UNCHANGED soVars

\* line 106
SecondExtract ==
    /\ pc = "getStarBoxDataAgain"
    /\ getStarBoxData("getImageStats")

\* lines 108-114; the integer conversions of a non-finite centroid raise
FillStats ==
    /\ pc = "getImageStats"
    /\ IF CentroidFinite(centroid)
       THEN /\ imStats' = StatsOf(exp, centroid, nSatPixInBox)
            /\ pc' = "radialAverageAndFit"
            /\ err' = err
       ELSE /\ Raise("ValueError")
            /\ imStats' = imStats
    /\ UNCHANGED <<exp, centroid, argCentroid, boxHalfSize, argHalfSize,
                   doTweakCentroid, data, starBbox, nSatPixInBox, peak, radii,
                   cumFluxes, cumFluxesNorm, round>>
    /\ UNCHANGED soVars

\* line 116: radialAverageAndFit, curve_fit returning (fitOk) or raising
\* RuntimeError.  np.max of no samples raises ValueError, and so does curve_fit
\* on a negative initial amplitude, which lies outside its bounds.
radialAverageAndFit ==
    /\ pc = "radialAverageAndFit"
    /\ \E samples \in {RadialSamples(data)} :
         IF samples = <<>> \/ SeqMax(Column(samples, 2)) < 0
         THEN /\ Raise("ValueError")
              /\ UNCHANGED <<imStats, radii, cumFluxes, cumFluxesNorm>>
         ELSE \E d \in {SortedPairs(samples)} :
              \E cum \in {CumSum(Column(d, 2))} :
              \E rs \in {Column(d, 1)}, norm \in {Normalized(cum)}, fitOk \in BOOLEAN :
                 /\ radii' = rs
                 /\ cumFluxes' = cum
                 /\ cumFluxesNorm' = norm
                 /\ imStats' =
                      ( [f \in {"eeRadius50", "eeRadius80", "eeRadius90"} |->
                           CASE f = "eeRadius50" -> EncircledEnergyRadius(rs, norm, 50)
                             [] f = "eeRadius80" -> EncircledEnergyRadius(rs, norm, 80)
                             [] f = "eeRadius90" -> EncircledEnergyRadius(rs, norm, 90)]
                        @@ FitFields(fitOk) @@ imStats )
                 /\ pc' = "done"
                 /\ err' = err
    /\ UNCHANGED <<exp, centroid, argCentroid, boxHalfSize, argHalfSize,
                   doTweakCentroid, data, starBbox, nSatPixInBox, peak, round>>
    /\ UNCHANGED soVars

\* a caller constructs the examiner again, on the same exposure and with the
\* same arguments, except that it passes the centroid the last run ended with
Rerun ==
    /\ pc = "done"
    /\ round = 1
    /\ round' = round + 1
    /\ argCentroid' = centroid
    /\ boxHalfSize' = argHalfSize
    /\ data' = EmptyArray
    /\ starBbox' = EmptyBox
    /\ nSatPixInBox' = 0
    /\ peak' = <<>>
    /\ imStats' = <<>>
    /\ radii' = <<>>
    /\ cumFluxes' = <<>>
    /\ cumFluxesNorm' = <<>>
    /\ pc' = "getStarBoxData"
    /\ UNCHANGED <<exp, centroid, argHalfSize, doTweakCentroid, err>>
    /\ UNCHANGED soVars

ExNext ==
    \/ FirstExtract
    \/ tweakCentroid
    \/ SecondExtract
    \/ FillStats
    \/ radialAverageAndFit
    \/ Rerun

(***************************************************************************)
(* ImageSorter (imageSorter.py).  Strings are sequences of characters, a    *)
(* dictionary is a function, a file name is [dayObs, seqNum, rest] with     *)
(* seqNum the digits that follow 'seqNum-'.                                 *)
(***************************************************************************)
\* the file does not exist
Absent == [kind |-> "absent"]

\* the file exists and holds no complete pickle: opened for writing and not
\* yet written and closed
Truncated == [kind |-> "truncated"]

\* the file holds the pickle of dictionary d
Pickled(d) == [kind |-> "pickle", dict |-> d]

RECURSIVE DigitsValue(_, _)
DigitsValue(ds, acc) ==
    IF ds = <<>> THEN acc ELSE DigitsValue(Tail(ds), 10 * acc + Head(ds))

\* ImageSorter._getDataIdFromFilename
_getDataIdFromFilename(filename) == <<filename.dayObs, DigitsValue(filename.seqNum, 0)>>

\* needle in haystack, for strings
Contains(haystack, needle) ==
    \E k \in 0 .. Len(haystack) - Len(needle) :
        SubSeq(haystack, k + 1, k + Len(needle)) = needle

\* str.upper() of one character
Upper(ch) ==
    CASE ch = "a" -> "A" [] ch = "o" -> "O" [] ch = "s" -> "S" [] ch = "b" -> "B"
      [] ch = "d" -> "D" [] ch = "q" -> "Q" [] OTHER -> ch

\* ImageSorter.getPreviousAnnotation: [err, value]
getPreviousAnnotation(files, d, n) ==
    IF n = 0 THEN [err |-> "RuntimeError", value |-> <<>>]
    ELSE LET previousDataId == _getDataIdFromFilename(files[n])   \* fileList[imNum-1]
         IN IF previousDataId \in DOMAIN d
            THEN [err |-> "", value |-> d[previousDataId]]
            ELSE [err |-> "KeyError", value |-> <<>>]

\* the dictionary d with d[k] = v
Put(d, k, v) == [j \in DOMAIN d \cup {k} |-> IF j = k THEN v ELSE d[j]]

\* ImageSorter.addData: [err, info], info the dictionary it leaves
addData(files, dataId, d, answer, m, n) ==
    LET prev == getPreviousAnnotation(files, d, n)
        useAnswer == IF Contains(answer, <<"=">>) THEN prev.value ELSE answer
    IN IF Contains(answer, <<"=">>) /\ prev.err # ""
       THEN [err |-> prev.err, info |-> d]
       ELSE IF dataId \notin DOMAIN d
       THEN [err |-> "", info |-> Put(d, dataId, useAnswer)]
       ELSE IF m = "O"
       THEN [err |-> "", info |-> Put(d, dataId, useAnswer)]
       ELSE IF m \in {"B", "A"}
       THEN [err |-> "", info |-> Put(d, dataId, d[dataId] \o useAnswer)]
       ELSE [err |-> "RuntimeError", info |-> d]

\* ImageSorter._load: [err, info]
_load(file) ==
    IF file.kind = "pickle" THEN [err |-> "", info |-> file.dict]
    ELSE IF file.kind = "truncated" THEN [err |-> "EOFError", info |-> <<>>]
    ELSE [err |-> "FileNotFoundError", info |-> <<>>]

\* Skipped as it would be if mode S passed over non-blank entries only, as
\* mode B does
SkippedWhenNotBlank(dataId, d, m) ==
    /\ dataId \in DOMAIN d
    /\ m \in {"S", "B"}
    /\ d[dataId] # <<>>

UpperCase == <<"A", "B", "C", "D", "E", "F", "G", "H", "I", "J", "K", "L", "M",
               "N", "O", "P", "Q", "R", "S", "T", "U", "V", "W", "X", "Y", "Z">>

LowerCase == <<"a", "b", "c", "d", "e", "f", "g", "h", "i", "j", "k", "l", "m",
               "n", "o", "p", "q", "r", "s", "t", "u", "v", "w", "x", "y", "z">>

\* str.lower()
Lower(str) ==
    [k \in 1 .. Len(str) |->
       IF \E c \in 1 .. Len(UpperCase) : UpperCase[c] = str[k]
       THEN LowerCase[CHOOSE c \in 1 .. Len(UpperCase) : UpperCase[c] = str[k]]
       ELSE str[k]]

\* the characters str.split() separates at
IsSpace(ch) == ch \in {" ", "\t", "\n"}

\* str.split(): the runs of characters that are not white space; word is the
\* run being read
RECURSIVE SplitFrom(_, _)
SplitFrom(str, word) ==
    IF str = <<>> THEN (IF word = <<>> THEN <<>> ELSE <<word>>)
    ELSE IF IsSpace(Head(str))
    THEN (IF word = <<>> THEN <<>> ELSE <<word>>) \o SplitFrom(Tail(str), <<>>)
    ELSE SplitFrom(Tail(str), Append(word, Head(str)))

Split(str) == SplitFrom(str, <<>>)

\* " ".join(words)
RECURSIVE Join(_)
Join(words) ==
    IF words = <<>> THEN <<>>
    ELSE IF Len(words) = 1 THEN words[1]
    ELSE words[1] \o <<" ">> \o Join(Tail(words))

\* no call of loadAnnotations yet
NotLoaded == [err |-> "none", tags |-> <<>>, notes |-> <<>>]

\* ImageSorter.loadAnnotations: [err, tags, notes]; split()[0] of a string of
\* nothing but spaces raises IndexError
loadAnnotations(file) ==
    LET loaded == _load(file)
        d == loaded.info
        spaced == {k \in DOMAIN d : Contains(Lower(d[k]), <<" ">>)}
    IN IF loaded.err # ""
       THEN [err |-> loaded.err, tags |-> <<>>, notes |-> <<>>]
       ELSE IF \E k \in spaced : Split(d[k]) = <<>>
       THEN [err |-> "IndexError", tags |-> <<>>, notes |-> <<>>]
       ELSE [err |-> "",
             tags |-> [k \in DOMAIN d |->
                         IF k \in spaced THEN Split(d[k])[1] ELSE Lower(d[k])],
             notes |-> [k \in spaced |-> Join(Tail(Split(d[k])))]]

\* lines 176-178: the image is passed over
Skipped(dataId, d, m) ==
    /\ dataId \in DOMAIN d
    /\ m \in {"S", "B"}
    /\ (m = "S" \/ (m = "B" /\ d[dataId] # <<>>))

FileNames ==
    { [dayObs |-> "2020-02-17", seqNum |-> <<7>>, rest |-> "calexp.png"],
      [dayObs |-> "2020-02-17", seqNum |-> <<0, 7>>, rest |-> "raw.png"],
      [dayObs |-> "2020-02-17", seqNum |-> <<8>>, rest |-> "calexp.png"] }

FileLists == UNION {[1 .. n -> FileNames] : n \in 0 .. MaxFiles}

\* what the operator types at an image
Answers == { <<>>, <<"G">>, <<"=">>, <<"B", " ", "n">>, <<"e", "x", "i", "t">>,
             <<" ">>, <<"o", "k", " ", " ", "N", "b">> }

\* what the operator types when asked for the mode
ModeInputs == { <<>>, <<"a">>, <<"O">>, <<"s">>, <<"B">>, <<"D">>, <<"q">>, <<"x">> }

\* what the output file can hold when sortImages starts
StartFiles ==
    { Absent, Truncated, Pickled(<<>>),
      Pickled(<<"2020-02-17", 7>> :> <<"G">>),
      Pickled(<<"2020-02-17", 7>> :> <<>>) }

SoInit ==
    /\ fileList \in FileLists
    /\ outputFile \in StartFiles
    /\ info = <<>>
    /\ mode = "A"
    /\ imNum = 0
    /\ spc = "start"
    /\ serr = ""
    /\ crashed = FALSE
    /\ startFile = outputFile
    /\ shown = {}
    /\ annotations = NotLoaded

Running == ~crashed /\ spc \notin {"done", "exited", "error"}

SoRaise(e) ==
    /\ spc' = "error"
    /\ serr' = e

\* lines 137-163: load an existing file and ask for the mode
Start ==
    /\ Running
    /\ spc = "start"
    /\ IF outputFile.kind = "absent"
       THEN /\ spc' = "initialSave"
            /\ UNCHANGED <<info, mode, serr>>
       ELSE LET loaded == _load(outputFile)
            IN IF loaded.err # ""
               THEN /\ SoRaise(loaded.err)
                    /\ UNCHANGED <<info, mode>>
               ELSE \E typed \in ModeInputs :
                    IF typed = <<>>
                    THEN /\ SoRaise("IndexError")
                         /\ info' = loaded.info
                         /\ mode' = mode
                    ELSE LET m == Upper(typed[1])
                         IN /\ serr' = serr
                            /\ IF m \in {"Q", "D"}
                               THEN /\ mode' = m
                                    /\ info' = loaded.info
                                    /\ spc' = "exited"
                               ELSE IF m \in {"A", "O", "S", "B"}
                               THEN /\ mode' = m
                                    /\ info' = loaded.info
                                    /\ spc' = "initialSave"
                               ELSE /\ mode' = "A"      \* sortImages calls itself,
                                    /\ info' = <<>>     \* lines 137-138 run again
                                    /\ spc' = "start"
    /\ UNCHANGED <<fileList, outputFile, imNum, crashed, startFile, shown>>
    /\ UNCHANGED <<annotations, exVars>>

\* ImageSorter._save, line 133: open(filename, "wb") empties the file
SaveOpens(from, to) ==
    /\ Running
    /\ spc = from
    /\ outputFile' = Truncated
    /\ spc' = to
    /\ UNCHANGED <<fileList, info, mode, serr, crashed, startFile, shown>>
    /\ UNCHANGED <<annotations, exVars>>

\* ImageSorter._save, line 134: the pickle is written and the file closed
SaveDumps(from, to) ==
    /\ Running
    /\ spc = from
    /\ outputFile' = Pickled(info)
    /\ spc' = to
    /\ UNCHANGED <<fileList, info, mode, serr, crashed, startFile, shown>>
    /\ UNCHANGED <<annotations, exVars>>

\* line 169
InitialSaveOpen ==
    /\ SaveOpens("initialSave", "initialDump")
    /\ imNum' = imNum

InitialSaveDump ==
    /\ SaveDumps("initialDump", "loop")
    /\ imNum' = imNum

\* lines 172-202: one pass of the loop up to its _save, or the loop's end
Annotate ==
    /\ Running
    /\ spc = "loop"
    /\ IF imNum >= Len(fileList)
       THEN /\ spc' = "done"
            /\ UNCHANGED <<info, imNum, serr, shown>>
       ELSE LET loaded == _load(outputFile)
                dataId == _getDataIdFromFilename(fileList[imNum + 1])
            IN IF loaded.err # ""
               THEN /\ SoRaise(loaded.err)
                    /\ UNCHANGED <<info, imNum, shown>>
               ELSE IF Skipped(dataId, loaded.info, mode)
               THEN /\ info' = loaded.info
                    /\ imNum' = imNum + 1
                    /\ UNCHANGED <<spc, serr, shown>>
               ELSE \E answer \in Answers :
                    IF Contains(answer, <<"e", "x", "i", "t">>)
                    THEN /\ info' = loaded.info
                         /\ shown' = shown \cup {dataId}
                         /\ spc' = "done"
                         /\ UNCHANGED <<imNum, serr>>
                    ELSE LET added == addData(fileList, dataId, loaded.info, answer,
                                              mode, imNum)
                         IN /\ info' = added.info
                            /\ shown' = shown \cup {dataId}
                            /\ imNum' = imNum
                            /\ IF added.err # ""
                               THEN SoRaise(added.err)
                               ELSE spc' = "save" /\ serr' = serr
    /\ UNCHANGED <<fileList, outputFile, mode, crashed, startFile>>
    /\ UNCHANGED <<annotations, exVars>>

\* line 203
SaveOpen ==
    /\ SaveOpens("save", "dump")
    /\ imNum' = imNum

\* line 203, and on to the next file
SaveDump ==
    /\ SaveDumps("dump", "loop")
    /\ imNum' = imNum + 1

\* the process dies where it stands: a kill, a power cut
Crash ==
    /\ Running
    /\ crashed' = TRUE
    /\ UNCHANGED <<fileList, outputFile, info, mode, imNum, spc, serr, startFile,
                   shown>>
    /\ UNCHANGED <<annotations, exVars>>

\* a caller reads the annotations back, sortImages being over
LoadAnnotations ==
    /\ ~Running
    /\ annotations = NotLoaded
    /\ annotations' = loadAnnotations(outputFile)
    /\ UNCHANGED <<fileList, outputFile, info, mode, imNum, spc, serr, crashed,
                   startFile, shown>>
    /\ UNCHANGED exVars

SoNext ==
    \/ LoadAnnotations
    \/ Start
    \/ InitialSaveOpen
    \/ InitialSaveDump
    \/ Annotate
    \/ SaveOpen
    \/ SaveDump
    \/ Crash

(***************************************************************************)
(* The specifications: Spec runs the examiner, SpecSorter the sorter; each  *)
(* leaves the other program's variables alone                               *)
(***************************************************************************)
vars == <<exVars, soVars>>

SoIdle ==
    /\ fileList = <<>>
    /\ outputFile = Absent
    /\ info = <<>>
    /\ mode = "A"
    /\ imNum = 0
    /\ spc = "idle"
    /\ serr = ""
    /\ crashed = FALSE
    /\ startFile = Absent
    /\ shown = {}
    /\ annotations = NotLoaded

ExIdle ==
    /\ exp = MakeExposure(<<2, 2>>, [bg |-> 1, p2 |-> <<2, 3>>, v2 |-> 1, sat |-> FALSE])
    /\ centroid = <<RatInt(2), RatInt(2)>>
    /\ argCentroid = centroid
    /\ boxHalfSize = 0
    /\ argHalfSize = 0
    /\ doTweakCentroid = FALSE
    /\ Unset
    /\ pc = "idle"
    /\ round = 1

Init == ExInit /\ SoIdle

Next == ExNext

Spec == Init /\ [][Next]_vars

InitSorter == SoInit /\ ExIdle

NextSorter == SoNext

SpecSorter == InitSorter /\ [][NextSorter]_vars

(***************************************************************************)
(* Properties of the analysis run                                          *)
(***************************************************************************)
Min2(a, b) == IF a < b THEN a ELSE b

\* the integer position of the centroid lies inside the exposure
IntInside(c) == CentroidFinite(c) /\ BoxContains(ChipBBox, IntPoint(c))

\* the centroid itself lies inside the exposure, and so does its integer position
CentroidInside(c) ==
    /\ IntInside(c)
    /\ ~RatLess(c[1], RatInt(ChipBBox.x0))
    /\ ~RatLess(c[2], RatInt(ChipBBox.y0))

\* the margin m of an integer point: its least distance to an edge
Margin(pt) ==
    SetMin({pt[1] - ChipBBox.x0, ChipBBox.x0 + ChipBBox.nx - pt[1] - 1,
            ChipBBox.y0 + ChipBBox.ny - pt[2] - 1, pt[2] - ChipBBox.y0})

AtExtract == pc \in {"getStarBoxData", "getStarBoxDataAgain"}

\* states in which self.centroid is the centroid of the latest extraction
Extracted == pc \in {"tweakCentroid", "getImageStats", "radialAverageAndFit", "done"}

\* C1: every extraction for a centroid inside the exposure, called with
\* boxHalfSize = h, finishes with boxHalfSize = min(h, m), m the margin of the
\* integer centroid.
C1_HalfSizeIsMinOfRequestAndMargin ==
    [][ (AtExtract /\ CentroidInside(centroid))
          => ( /\ pc' # "error"
               /\ boxHalfSize' = Min2(boxHalfSize, Margin(IntPoint(centroid))) ) ]_exVars

\* C2: after an extraction for a centroid inside the exposure, starBbox lies
\* inside the exposure, is square with side 2*boxHalfSize+1, and the cutout's
\* pixel (boxHalfSize, boxHalfSize) is the integer centroid.
C2_BoxSquareInsideCentred ==
    (Extracted /\ CentroidInside(centroid))
      => ( /\ BoxInside(starBbox, ChipBBox)
           /\ starBbox.nx = starBbox.ny
           /\ starBbox.nx = 2 * boxHalfSize + 1
           /\ <<starBbox.x0 + boxHalfSize, starBbox.y0 + boxHalfSize>> = IntPoint(centroid) )

\* C3: an extraction for a centroid whose integer position lies outside the
\* exposure ends in an error; it never stores a box and a cutout.
C3_OutsideCentroidFails ==
    [][ (AtExtract /\ CentroidFinite(centroid) /\ ~IntInside(centroid))
          => pc' = "error" ]_exVars

\* the cutout locations that hold its maximum
MaxLocations(arr) == {ij \in Indices(arr) : \A kl \in Indices(arr) :
                         arr.a[kl[1]][kl[2]] <= arr.a[ij[1]][ij[2]]}

AsRationals(ij) == <<RatInt(ij[1]), RatInt(ij[2])>>

JustTweaked == pc = "getStarBoxDataAgain"

\* C4: tweakCentroid goes on with the maximum's location when the maximum sits
\* at exactly one location and no pixel of the box is saturated, and with the
\* centre of mass of the whole cutout in every other case.
C4_PeakIsMaxIffUniqueAndUnsaturated ==
    JustTweaked =>
        IF Cardinality(MaxLocations(data)) = 1 /\ nSatPixInBox = 0
        THEN \E ij \in MaxLocations(data) : peak = AsRationals(ij)
        ELSE peak = center_of_mass(data)

\* C4's case: several pixels share the maximum, and the peak is none of them
C4_Witness ==
    /\ JustTweaked
    /\ nSatPixInBox = 0
    /\ Cardinality(MaxLocations(data)) >= 2
    /\ \A ij \in MaxLocations(data) : peak # AsRationals(ij)

\* C5: tweakCentroid replaces the centroid (x, y) by
\* (x + (col - boxHalfSize), y + (row - boxHalfSize)) for the peak (row, col),
\* and leaves it as it was when the peak is (boxHalfSize, boxHalfSize).
C5_OffsetAddedWithAxesSwapped ==
    JustTweaked =>
        /\ centroid[1] = RatAdd(argCentroid[1], RatSub(peak[2], RatInt(boxHalfSize)))
        /\ centroid[2] = RatAdd(argCentroid[2], RatSub(peak[1], RatInt(boxHalfSize)))
        /\ (peak = AsRationals(<<boxHalfSize, boxHalfSize>>) => centroid = argCentroid)

\* C5's case: the peak is off the cutout's centre by different amounts in row
\* and column, and the centroid has moved
C5_Witness ==
    /\ JustTweaked
    /\ CentroidFinite(centroid)
    /\ RatSub(peak[1], RatInt(boxHalfSize)) # RatSub(peak[2], RatInt(boxHalfSize))
    /\ centroid # argCentroid

\* the exposure's only maximum, as a point (x, y)
StarPoint == LET ij == argMax2d(exp.image).maxLocation IN <<ij[2], ij[1]>>

\* C6: on an exposure without saturated pixels whose maximum sits at the single
\* pixel P, for a centroid inside the exposure whose box holds P, extraction
\* and tweakCentroid put the centroid on P, and a second run on the result
\* leaves the centroid where it is.
C6_RefinementIdempotent ==
    ( /\ JustTweaked
      /\ exp.mask["SAT"] = {}
      /\ argMax2d(exp.image).unique
      /\ CentroidInside(argCentroid)
      /\ BoxContains(starBbox, StarPoint) )
      => IF round = 1 THEN IntPoint(centroid) = StarPoint ELSE centroid = argCentroid

ReportFields == {"fitAmp", "fitGausMean", "fitFwhm", "eeRadius50", "eeRadius80",
                 "eeRadius90"}

FitFailed == "fitAmp" \in DOMAIN imStats /\ imStats["fitAmp"] = "nan"

\* C7: after a run whose fit failed the report holds fitAmp, fitGausMean and
\* fitFwhm, each not-a-number, next to eeRadius50, eeRadius80 and eeRadius90.
C7_FailedFitLeavesAllFields ==
    (pc = "done" /\ FitFailed)
      => ( /\ ReportFields \subseteq DOMAIN imStats
           /\ \A f \in {"fitAmp", "fitGausMean", "fitFwhm"} : imStats[f] = "nan" )

Last(s) == s[Len(s)]

\* the cutout is one a correct extraction gives: square, of side 2*boxHalfSize+1
WellFormedCutout == data.rows = 2 * boxHalfSize + 1 /\ data.cols = 2 * boxHalfSize + 1

\* C8: with a positive cumulative total, getEncircledEnergyRadius(100) is the
\* largest sampled radius (stated for well-formed cutouts, where it fails too).
C8_FullEnergyAtMaxRadius ==
    (pc = "done" /\ WellFormedCutout /\ Last(cumFluxes) > 0)
      => getEncircledEnergyRadius(100) = SeqMax(radii)

Ascending(s) == \A k \in 1 .. Len(s) - 1 : s[k] <= s[k + 1]

TableInOrder ==
    /\ Ascending(radii)
    /\ Ascending(cumFluxes)
    /\ \A k \in 1 .. Len(cumFluxesNorm) :
          /\ ~RatLess(cumFluxesNorm[k], RatInt(0))
          /\ ~RatLess(RatInt(1), cumFluxesNorm[k])
          /\ IsFinite(cumFluxesNorm[k])
    /\ Last(cumFluxesNorm) = RatInt(1)
    /\ SeqMax(cumFluxes) = Last(cumFluxes)

\* C9 as claimed: for every cutout the table has ascending radii, non-decreasing
\* cumulative fluxes and normalized fluxes in [0, 1] that end at 1, the
\* normalizing value being the final cumulative total.
C9_TableInOrderForEveryCutout == pc = "done" => TableInOrder

\* the values of the radial samples, in loop order
SampledValues == Column(RadialSamples(data), 2)

NonNegativeWithFlux ==
    \E sv \in {SampledValues} :
       /\ \A k \in 1 .. Len(sv) : sv[k] >= 0
       /\ SumSeq(sv) > 0

\* C9, amended: the same, for every cutout whose sampled pixel values are all
\* non-negative and sum to a positive total.
C9_TableInOrderForNonNegativeFlux ==
    (pc = "done" /\ NonNegativeWithFlux) => TableInOrder

\* C9's case: a table over several radii whose cumulative flux really grows
C9_Witness ==
    /\ pc = "done"
    /\ NonNegativeWithFlux
    /\ Len(radii) >= 2
    /\ radii[1] < Last(radii)
    /\ cumFluxes[1] < Last(cumFluxes)

(***************************************************************************)
(* Properties of the annotation loop                                       *)
(***************************************************************************)
\* the initial save is done: sortImages is in its loop, or in the loop's _save
PastInitialSave == spc \in {"loop", "save", "dump"}

\* the annotations in memory that the file does not give back: all of them
\* when the file does not load
LostOnDisk ==
    IF _load(outputFile).err # "" THEN DOMAIN info
    ELSE {k \in DOMAIN info : k \notin DOMAIN outputFile.dict \/ outputFile.dict[k] # info[k]}

\* C10: after a crash that comes later than the initial save, also one in the
\* middle of a save, the output file gives back every annotation accepted so
\* far except at most one, the one that was being written.
C10_CrashLosesAtMostOneAnnotation ==
    (crashed /\ PastInitialSave) => Cardinality(LostOnDisk) <= 1

(***************************************************************************)
(* Properties of a restart on an existing file                             *)
(***************************************************************************)
\* the entries the output file held when sortImages was called
StartEntries == IF startFile.kind = "pickle" THEN startFile.dict ELSE <<>>

\* dictionary d still has every entry of StartEntries whose key is in keys
Keeps(d, keys) == \A k \in keys : k \in DOMAIN d /\ d[k] = StartEntries[k]

\* the entries of the start file are unchanged, in the dictionary in memory and
\* in every pickle written to the file
KeptEverywhere(keys) ==
    /\ Keeps(info, keys)
    /\ outputFile.kind = "pickle" => Keeps(outputFile.dict, keys)

NonBlankStartKeys == {k \in DOMAIN StartEntries : StartEntries[k] # <<>>}

\* C11: after a restart in mode S no entry the file held at the start is shown
\* to the operator or changed; in mode B no entry that was stored non-blank is
\* changed; in modes D and Q the file stays as it was.
C11_RestartModesLeaveEntriesAlone ==
    /\ mode = "S" => ( /\ shown \cap DOMAIN StartEntries = {}
                       /\ KeptEverywhere(DOMAIN StartEntries) )
    /\ mode = "B" => KeptEverywhere(NonBlankStartKeys)
    /\ mode \in {"D", "Q"} => outputFile = startFile

\* a run in mode S that ended after the operator was asked about one image and
\* an image with an entry in the start file was passed
C11_Witness ==
    /\ mode = "S"
    /\ spc = "done"
    /\ imNum = Len(fileList)
    /\ shown # {}
    /\ \E k \in 1 .. Len(fileList) :
         _getDataIdFromFilename(fileList[k]) \in DOMAIN StartEntries
    /\ outputFile.kind = "pickle"
    /\ DOMAIN outputFile.dict # DOMAIN StartEntries

(***************************************************************************)
(* Properties of loadAnnotations                                           *)
(***************************************************************************)
\* the index of the first space of str, 0 when it has none
FirstSpace(str) ==
    IF \E k \in 1 .. Len(str) : str[k] = " "
    THEN CHOOSE k \in 1 .. Len(str) : str[k] = " " /\ \A j \in 1 .. k - 1 : str[j] # " "
    ELSE 0

BeforeFirstSpace(str) ==
    IF FirstSpace(str) = 0 THEN str ELSE SubSeq(str, 1, FirstSpace(str) - 1)

AfterFirstSpace(str) == SubSeq(str, FirstSpace(str) + 1, Len(str))

\* the file loadAnnotations read: sortImages is over and the file is not touched
AnnotationsRead == annotations.err = "" /\ outputFile.kind = "pickle"

\* C12: for every stored annotation, the tag loadAnnotations gives is the
\* lower-cased text before the first space (the whole string lower-cased when
\* there is no space), and the note is the text after that space, whole.
C12_TagLowerCasedNoteWhole ==
    AnnotationsRead =>
      \A k \in DOMAIN outputFile.dict :
         LET str == outputFile.dict[k]
         IN /\ annotations.tags[k] = Lower(BeforeFirstSpace(str))
            /\ FirstSpace(str) # 0 =>
                 ( /\ k \in DOMAIN annotations.notes
                   /\ annotations.notes[k] = AfterFirstSpace(str) )

(***************************************************************************)
(* Properties of the order of the stages                                   *)
(***************************************************************************)
\* the stage that may follow each stage of __init__, lines 103-116; a failing
\* stage ends the run, and the refinement with its second extraction is left
\* out when doTweakCentroid is false
StageOrder ==
    \/ pc = "getStarBoxData"
         /\ pc' = (IF doTweakCentroid THEN "tweakCentroid" ELSE "getImageStats")
    \/ pc = "tweakCentroid" /\ pc' = "getStarBoxDataAgain"
    \/ pc = "getStarBoxDataAgain" /\ pc' = "getImageStats"
    \/ pc = "getImageStats" /\ pc' = "radialAverageAndFit"
    \/ pc = "radialAverageAndFit" /\ pc' = "done"
    \/ pc = "done" /\ pc' = "getStarBoxData"
    \/ pc' = "error"

\* data, starBbox and nSatPixInBox are what an extraction with the centroid and
\* the boxHalfSize of this state gives, and that extraction leaves boxHalfSize
CutoutIsCurrent ==
    LET r == _calcBbox(IntPoint(centroid), boxHalfSize, 0, FALSE)
    IN /\ r.err = ""
       /\ r.half = boxHalfSize
       /\ starBbox = r.bbox
       /\ data = SubArray(exp.image, r.bbox)
       /\ nSatPixInBox = countPixels(exp.mask, r.bbox, "SAT")

\* the stages that read the cutout: the refinement, the report, the profile
ReadsCutout == pc \in {"tweakCentroid", "getImageStats", "radialAverageAndFit", "done"}

\* C13: the stages run in the order extract, refine, extract again, report and
\* radial profile (refine and the second extraction only when doTweakCentroid),
\* and whenever a stage reads the cutout, data, starBbox and nSatPixInBox are
\* those of an extraction with the centroid and boxHalfSize then in force.
C13_StagesInOrderOnCurrentCutout ==
    /\ [][StageOrder]_pc
    /\ []((ReadsCutout /\ CentroidFinite(centroid)) => CutoutIsCurrent)

\* a finished run whose refinement moved the centroid
C13_Witness ==
    /\ pc = "done"
    /\ round = 1
    /\ doTweakCentroid
    /\ centroid # argCentroid
    /\ data.rows > 0

(***************************************************************************)
(* Properties of the radial sample set                                     *)
(***************************************************************************)
\* the pixels of the cutout at 4 * distance ^ 2 = q from the centre
PixelsAt(q) == {ij \in Indices(data) : Dist4(data, ij[1], ij[2]) = q}

\* the samples of the radial profile at that distance
SamplesAt(q) == {k \in 1 .. Len(radii) : radii[k] = q}

\* every distance a pixel or a sample has
DistancesSeen ==
    {Dist4(data, ij[1], ij[2]) : ij \in Indices(data)} \cup {radii[k] : k \in 1 .. Len(radii)}

\* the samples are exactly the pixels with 4 * distance ^ 2 <= bound4
SamplesAreThePixelsWithin(bound4) ==
    \A q \in DistancesSeen :
       Cardinality(SamplesAt(q)) = (IF q <= bound4 THEN Cardinality(PixelsAt(q)) ELSE 0)

ProfileOfSquareCutout == pc = "done" /\ data.rows = data.cols

\* C14 as stated: for a square cutout of width w the samples are exactly the
\* pixels whose distance from the centre (w/2, w/2) is at most w/2.
C14_SamplesWithinHalfWidth ==
    ProfileOfSquareCutout => SamplesAreThePixelsWithin(data.rows * data.rows)

\* C14 amended: for a square cutout of width w the samples are exactly the
\* pixels whose distance from the centre (w/2, w/2) is at most w/2 rounded
\* down, the half-size of the box; a pixel is left out iff it is farther.
C14_SamplesWithinHalfSize ==
    ProfileOfSquareCutout =>
      SamplesAreThePixelsWithin(4 * (data.rows \div 2) * (data.rows \div 2))

\* the profile of a 5x5 cutout: 12 of its 25 pixels are within distance 2
C14_Witness ==
    /\ pc = "done"
    /\ data.rows = 5
    /\ data.cols = 5
    /\ Len(radii) = 12

(***************************************************************************)
(* Properties of the shrink-and-retry of _calcBbox                         *)
(***************************************************************************)
\* what _calcBbox gives for the centroid and boxHalfSize of this state
CalcBboxNow == _calcBbox(IntPoint(centroid), boxHalfSize, 0, FALSE)

EeFields == {"eeRadius50", "eeRadius80", "eeRadius90"}

\* C16: a run on a centroid inside the exposure, one on the edge with a 1x1
\* cutout included, never ends in an error, and when it is done the radial
\* sample set is not empty and eeRadius50, eeRadius80, eeRadius90 are set.
C16_InsideCentroidRunCompletes ==
    CentroidInside(argCentroid) =>
      /\ pc # "error"
      /\ pc = "done" => (radii # <<>> /\ EeFields \subseteq DOMAIN imStats)

\* the same for exposures without negative pixels and without refinement: the
\* error left is that of the cutout without samples
C16_OneByOneCutoutRunCompletes ==
    ( /\ CentroidInside(argCentroid)
      /\ ~doTweakCentroid
      /\ \A ij \in Indices(exp.image) : exp.image.a[ij[1]][ij[2]] > 0 )
      => pc # "error"

(***************************************************************************)
(* Properties of the report fields of getImageStats                        *)
(***************************************************************************)
ReportFilled == "multipleMaxPixels" \in DOMAIN imStats

\* the first location of the image's maximum in the order np.where gives
FirstMaxLocation ==
    CHOOSE ij \in MaxLocations(exp.image) :
       \A kl \in MaxLocations(exp.image) : ij = kl \/ RowMajorLess(ij, kl)

\* C17: in the report multipleMaxPixels is true exactly when the maximum of the
\* image is at more than one pixel, and maxPixelLocation is the first location
\* of the maximum.
C17_MultipleMaxPixelsIffShared ==
    ReportFilled =>
      /\ imStats["multipleMaxPixels"] = (Cardinality(MaxLocations(exp.image)) > 1)
      /\ imStats["maxPixelLocation"] = FirstMaxLocation

(***************************************************************************)
(* Properties of the encircled-energy radii                                *)
(***************************************************************************)
\* how far the normalized cumulative flux at sample k is from percentage / 100
OffTarget(k, percentage) ==
    RatAbs(RatSub(RatDiv(percentage, 100), cumFluxesNorm[k]))

\* sample k is the first, in ascending distance, of those closest to the
\* target, off[j] being how far sample j is from it
FirstClosest(k, off) ==
    /\ \A j \in 1 .. Len(off) : ~RatLess(off[j], off[k])
    /\ \A j \in 1 .. k - 1 : RatLess(off[k], off[j])

ReportsFirstClosest(field, percentage) ==
    \E off \in {[j \in 1 .. Len(radii) |-> OffTarget(j, percentage)]} :
       \E k \in 1 .. Len(radii) :
          FirstClosest(k, off) /\ imStats[field] = radii[k]

\* C18: for a cutout whose sampled values are all non-negative with a positive
\* total, eeRadius50 <= eeRadius80 <= eeRadius90, and each is the radius of the
\* first sample, in ascending distance, whose normalized cumulative flux is
\* closest to the fraction asked for.
C18_EeRadiiOrderedFirstClosest ==
    (pc = "done" /\ NonNegativeWithFlux) =>
      /\ imStats["eeRadius50"] <= imStats["eeRadius80"]
      /\ imStats["eeRadius80"] <= imStats["eeRadius90"]
      /\ ReportsFirstClosest("eeRadius50", 50)
      /\ ReportsFirstClosest("eeRadius80", 80)
      /\ ReportsFirstClosest("eeRadius90", 90)

\* a profile whose 50% radius is smaller than its 90% radius
C18_Witness ==
    /\ pc = "done"
    /\ NonNegativeWithFlux
    /\ imStats["eeRadius50"] < imStats["eeRadius90"]

====
